---------------------------- MODULE Spec2Model ----------------------------
(***************************************************************************)
(* A model of the two protocol engines of the repository:                  *)
(*                                                                         *)
(*  - IPCService (apps/desktop/native-messaging-test-runner/src/           *)
(*    ipc.service.ts): the framed IPC client that talks to the             *)
(*    desktop_proxy child process over its stdio pipes;                    *)
(*  - BrowserFido2UserInterfaceSession (unnamed/part_000) together with    *)
(*    the popout's Fido2Component (unnamed/part_001): the session broker   *)
(*    that delegates a FIDO2 ceremony to a popout window or tab.           *)
(*                                                                         *)
(* The two engines do not interact.  FrameSpec and IpcSpec exercise the    *)
(* IPC client (byte-level reassembly, resp. the request/response           *)
(* protocol); Spec exercises the session broker.  Every specification      *)
(* leaves the other engine's variables untouched.                          *)
(***************************************************************************)
EXTENDS Integers, Sequences, FiniteSets, TLC

VARIABLES
  \* ---- IPCService (ipc.service.ts:45-62) ----
  connectionState,      \* this.connectionState
  pendingMessages,      \* this.pendingMessages: messageId -> index of the sendMessage call owning the Deferred
  awaitingConnection,   \* this.awaitingConnection: set of indices of connect() calls (their Deferred)
  process,              \* this.process: 0 (undefined) or the index of the last spawned process
  processOutputBuffer,  \* this.processOutputBuffer: sequence of bytes
  procs,                \* every process spawned so far: [state, started, killed, stdin]
  sendCalls,            \* every sendMessage() call so far: [messageId, state, value]
  connectCalls,         \* every connect() call so far: "waiting" | "resolved" | "rejected" | "returned"
  wire,                 \* bytes the worker wrote to its stdout that no data event delivered yet
  ipcEvent,             \* what the last step did if it was a stdout data event: [data, msgs, threw, handler]
  everConnected,        \* a {command:"connected"} message was dispatched
  everLost,             \* a process exited or a {command:"disconnected"} message was dispatched
  \* ---- BrowserFido2UserInterfaceSession / Fido2Component ----
  sess,                 \* per session: the fields of BrowserFido2UserInterfaceSession
  op,                   \* per session: the public operation its caller is running
  surf,                 \* every popout opened so far (window or tab with its Fido2Component)
  toUi,                 \* broadcast messages sent by the background, not yet delivered
  toBg,                 \* broadcast messages sent by popouts, not yet delivered
  removed,              \* chrome.windows.onRemoved events not yet delivered (window ids)
  authStatus,           \* what authService.getAuthStatus() answers
  opsStarted            \* number of public operations invoked so far

ipcVars  == <<connectionState, pendingMessages, awaitingConnection, process,
              processOutputBuffer, procs, sendCalls, connectCalls, wire, ipcEvent,
              everConnected, everLost>>
sessVars == <<sess, op, surf, toUi, toBg, removed, authStatus, opsStarted>>
vars     == <<connectionState, pendingMessages, awaitingConnection, process,
              processOutputBuffer, procs, sendCalls, connectCalls, wire, ipcEvent,
              everConnected, everLost,
              sess, op, surf, toUi, toBg, removed, authStatus, opsStarted>>

(***************************************************************************)
(* Bounds of the model.                                                    *)
(***************************************************************************)
MaxCalls        == 3   \* connect() and sendMessage() calls per behaviour
MaxProcs        == 2   \* processes spawned per behaviour
MaxWireBytes    == 20  \* bytes the worker may have written ahead of the data events
MaxBufBytes     == 30  \* bytes the reassembly buffer may hold

Min(a, b) == IF a < b THEN a ELSE b

(***************************************************************************)
(* Messages and their JSON text.                                           *)
(*                                                                         *)
(* A message is a record; JSON.stringify / JSON.parse are modelled on a    *)
(* reduced alphabet that keeps what framing depends on: a text is a        *)
(* sequence of characters, it starts with "{" and ends with "}", and no    *)
(* proper prefix of a text is itself a text (JSON.parse of a truncated     *)
(* object throws SyntaxError).  A character is its code point; code points *)
(* below 128 take one UTF-8 byte, the others (here only U+00E9) two.       *)
(***************************************************************************)
SyntaxError == [error |-> "SyntaxError"]
MessageIds  == {"m1", "m2"}

ConnectedMsg    == [command |-> "connected"]
DisconnectedMsg == [command |-> "disconnected"]
NoticeMsg       == [command |-> "notice"]
Response(id)    == [messageId |-> id]
WorkerMessages  == {ConnectedMsg, DisconnectedMsg, NoticeMsg} \cup {Response(id) : id \in MessageIds}

\* A message carrying a one-character payload, ASCII ("a") or not (U+00E9).
Payloads        == {"a", "e-acute"}
Request(id, p)  == [messageId |-> id, payload |-> p]
Requests        == {Request(id, p) : id \in MessageIds, p \in Payloads}

IdChar(id)      == IF id = "m1" THEN 49 ELSE 50
CommandChar(c)  == CASE c = "connected" -> 67 [] c = "disconnected" -> 68 [] OTHER -> 78
PayloadChar(p)  == IF p = "a" THEN 97 ELSE 233

\* JSON.stringify(message): the text, a sequence of characters.
Stringify(m) ==
  IF "command" \in DOMAIN m THEN <<123, 99, CommandChar(m.command), 125>>
  ELSE IF "payload" \in DOMAIN m THEN <<123, 105, IdChar(m.messageId), PayloadChar(m.payload), 125>>
  ELSE <<123, 105, IdChar(m.messageId), 125>>

\* The UTF-8 bytes of one character, and of a text.
Utf8Char(c) == IF c < 128 THEN <<c>> ELSE <<192 + (c \div 64), 128 + (c % 64)>>
RECURSIVE Utf8(_)
Utf8(text) == IF text = <<>> THEN <<>> ELSE Utf8Char(Head(text)) \o Utf8(Tail(text))

\* The UTF-8 JSON text of every message of the model.
TextBytes == [m \in WorkerMessages \cup Requests |-> Utf8(Stringify(m))]

\* JSON.parse(bytes.toString()): the message whose text has exactly these bytes.
Parse(bytes) ==
  LET hits == {m \in DOMAIN TextBytes : TextBytes[m] = bytes}
  IN IF hits = {} THEN SyntaxError ELSE CHOOSE m \in hits : TRUE

\* Buffer.writeUInt32LE / readUInt32LE.
UInt32LE(n) == <<n % 256, (n \div 256) % 256, (n \div 65536) % 256, (n \div 16777216) % 256>>
ReadUInt32LE(buf) == buf[1] + 256 * buf[2] + 65536 * buf[3] + 16777216 * buf[4]

\* The frame an unmodified worker writes for a message (native-messaging host protocol).
Frame(m) == UInt32LE(Len(TextBytes[m])) \o TextBytes[m]

(***************************************************************************)
(* IPCService.sendIpcMessage (ipc.service.ts:168-175).                     *)
(***************************************************************************)
Zeros(n) == [i \in 1..n |-> 0]

\* buffer.write(messageStr, 4) into the `room` bytes left of a zero-filled buffer:
\* whole characters only, as many as fit.
RECURSIVE BufferWrite(_, _)
BufferWrite(text, room) ==
  IF text = <<>> \/ Len(Utf8Char(Head(text))) > room THEN Zeros(room)
  ELSE Utf8Char(Head(text)) \o BufferWrite(Tail(text), room - Len(Utf8Char(Head(text))))

\* The buffer sendIpcMessage hands to stdin.write.
sendIpcMessage(message) ==
  LET messageStr == Stringify(message)
  IN UInt32LE(Len(messageStr)) \o BufferWrite(messageStr, Len(messageStr))

(***************************************************************************)
(* IPCService.processIpcMessage (ipc.service.ts:177-216): the reassembly   *)
(* loop.  Reassemble(buf, out) is the loop started on buffer buf after the *)
(* messages out were decoded: the buffer it leaves, the messages it        *)
(* decoded in order, and whether JSON.parse threw.                         *)
(***************************************************************************)
IncompleteWait(msgLength, buf) == msgLength + 4 < Len(buf)

RECURSIVE Reassemble(_, _)
Reassemble(buf, out) ==
  IF Len(buf) < 4 THEN [buffer |-> buf, msgs |-> out, threw |-> FALSE]
  ELSE LET msgLength == ReadUInt32LE(buf) IN
    IF IncompleteWait(msgLength, buf) THEN [buffer |-> buf, msgs |-> out, threw |-> FALSE]
    ELSE LET messageStr == SubSeq(buf, 5, Min(msgLength + 4, Len(buf)))
             message    == Parse(messageStr)
         IN IF "error" \in DOMAIN message
            THEN [buffer |-> buf, msgs |-> out, threw |-> TRUE]
            ELSE Reassemble(SubSeq(buf, msgLength + 5, Len(buf)), Append(out, message))

(***************************************************************************)
(* Dispatch of one decoded message (ipc.service.ts:198-214) and            *)
(* IPCService.processMessage (ipc.service.ts:218-233), on a record st of   *)
(* the fields a dispatch can change.                                       *)
(***************************************************************************)
IpcFields == [cs |-> connectionState, pend |-> pendingMessages, await |-> awaitingConnection,
              sends |-> sendCalls, conns |-> connectCalls, handler |-> <<>>,
              everC |-> everConnected, everL |-> everLost]

\* deferred.resolve(value) on the Deferred of sendMessage call i.
ResolveSend(sends, i, value) ==
  IF sends[i].state = "waiting"
  THEN [sends EXCEPT ![i] = [@ EXCEPT !.state = "resolved", !.value = value]]
  ELSE sends

processMessage_AnyPending(st, message) ==
  IF DOMAIN st.pend = {} THEN [st EXCEPT !.handler = Append(st.handler, message)]
  ELSE LET id == CHOOSE k \in DOMAIN st.pend : TRUE
       IN [st EXCEPT !.sends = ResolveSend(st.sends, st.pend[id], message),
                     !.pend  = [k \in DOMAIN st.pend \ {id} |-> st.pend[k]]]

processMessage_Handler(st, message) == [st EXCEPT !.handler = Append(st.handler, message)]

processMessage(st, message) ==
  IF "messageId" \in DOMAIN message /\ message.messageId \in DOMAIN st.pend
  THEN [st EXCEPT !.sends = ResolveSend(st.sends, st.pend[message.messageId], message),
                  !.pend  = [id \in DOMAIN st.pend \ {message.messageId} |-> st.pend[id]]]
  ELSE [st EXCEPT !.handler = Append(st.handler, message)]

OnConnected(st) ==
  [st EXCEPT !.cs = "connected",
             !.conns = [c \in DOMAIN st.conns |->
                          IF c \in st.await /\ st.conns[c] = "waiting" THEN "resolved" ELSE st.conns[c]],
             !.await = {},
             !.everC = TRUE]

OnDisconnected_Keep(st) == st

\* The {command:"disconnected"} branch of the dispatch (ipc.service.ts:208-212).
OnDisconnected(st) == [st EXCEPT !.cs = "disconnected", !.everL = TRUE]

Dispatch(st, message) ==
  IF "command" \in DOMAIN message /\ message.command = "connected" THEN OnConnected(st)
  ELSE IF "command" \in DOMAIN message /\ message.command = "disconnected" THEN OnDisconnected(st)
  ELSE processMessage(st, message)

RECURSIVE DispatchAll(_, _)
DispatchAll(st, msgs) ==
  IF msgs = <<>> THEN st ELSE DispatchAll(Dispatch(st, Head(msgs)), Tail(msgs))

\* The whole stdout "data" handler on chunk data (ipc.service.ts:95-97, 177-216).
processIpcMessage(data) ==
  LET r  == Reassemble(processOutputBuffer \o data, <<>>)
      st == DispatchAll(IpcFields, r.msgs)
  IN /\ processOutputBuffer' = r.buffer
     /\ connectionState' = st.cs
     /\ pendingMessages' = st.pend
     /\ awaitingConnection' = st.await
     /\ sendCalls' = st.sends
     /\ connectCalls' = st.conns
     /\ everConnected' = st.everC
     /\ everLost' = st.everL
     /\ ipcEvent' = [data |-> TRUE, msgs |-> r.msgs, threw |-> r.threw, handler |-> st.handler]

(***************************************************************************)
(* The IPC client's operations and the events of its worker process.       *)
(***************************************************************************)
\* ipcEvent after a step that was no stdout data event.
NoData == [data |-> FALSE, msgs |-> <<>>, threw |-> FALSE, handler |-> <<>>]

IpcInit ==
  /\ connectionState = "disconnected"
  /\ pendingMessages = <<>>
  /\ awaitingConnection = {}
  /\ process = 0
  /\ processOutputBuffer = <<>>
  /\ procs = <<>>
  /\ sendCalls = <<>>
  /\ connectCalls = <<>>
  /\ wire = <<>>
  /\ ipcEvent = NoData
  /\ everConnected = FALSE
  /\ everLost = FALSE

\* A process as spawn() returns it: running, nothing written to its stdin.
NewProcess == [state |-> "running", started |-> FALSE, killed |-> FALSE, stdin |-> <<>>]

\* A connect() that starts a connection attempt whatever the state.
MustSpawn_Always == connectionState # "connected"

\* Whether connect() has to start a connection attempt (ipc.service.ts:79).
MustSpawn == connectionState = "disconnected"

AlreadyConnected_Never == FALSE

\* Whether connect() returns at once (ipc.service.ts:66-69).
AlreadyConnected == connectionState = "connected"

\* IPCService.connect and _connect (ipc.service.ts:64-93).
Connect ==
  /\ Len(connectCalls) + Len(sendCalls) < MaxCalls
  /\ MustSpawn /\ connectionState # "connected" => Len(procs) < MaxProcs
  /\ IF AlreadyConnected
     THEN /\ connectCalls' = Append(connectCalls, "returned")
          /\ UNCHANGED <<connectionState, awaitingConnection, process, procs>>
     ELSE /\ connectCalls' = Append(connectCalls, "waiting")
          /\ awaitingConnection' = awaitingConnection \cup {Len(connectCalls) + 1}
          /\ IF MustSpawn
             THEN /\ connectionState' = "connecting"
                  /\ procs' = Append(procs, NewProcess)
                  /\ process' = Len(procs) + 1
             ELSE UNCHANGED <<connectionState, process, procs>>
  /\ ipcEvent' = NoData
  /\ UNCHANGED <<pendingMessages, processOutputBuffer, sendCalls, wire, everConnected, everLost>>

ErrorRejects_None(c) == FALSE

\* The deferreds the error handler rejects (ipc.service.ts:110-113).
ErrorRejects(c) == c \in awaitingConnection

\* The process "error" handler (ipc.service.ts:103-115), on the event that reports
\* that the process could not be spawned.
ProcessError(p) ==
  /\ procs[p].state = "running" /\ ~procs[p].started
  /\ procs' = [procs EXCEPT ![p].state = "failed"]
  /\ connectCalls' = [c \in DOMAIN connectCalls |->
                        IF ErrorRejects(c) /\ connectCalls[c] = "waiting"
                        THEN "rejected" ELSE connectCalls[c]]
  /\ awaitingConnection' = {}
  /\ ipcEvent' = NoData
  /\ UNCHANGED <<connectionState, pendingMessages, process, processOutputBuffer, sendCalls,
                 wire, everConnected, everLost>>

\* The process "exit" handler (ipc.service.ts:117-120).
ProcessExit(p) ==
  /\ procs[p].state = "running"
  /\ procs' = [procs EXCEPT ![p].state = "exited"]
  /\ connectionState' = "disconnected"
  /\ everLost' = TRUE
  /\ ipcEvent' = NoData
  /\ UNCHANGED <<pendingMessages, awaitingConnection, process, processOutputBuffer, sendCalls,
                 connectCalls, wire, everConnected>>

DisconnectKills_Always == TRUE

\* Whether disconnect() asks the process to terminate (ipc.service.ts:125).
DisconnectKills == connectionState # "disconnected"

\* IPCService.disconnect (ipc.service.ts:123-128).
Disconnect ==
  /\ procs' = IF DisconnectKills /\ process # 0
              THEN [procs EXCEPT ![process].killed = TRUE] ELSE procs
  /\ ipcEvent' = NoData
  /\ UNCHANGED <<connectionState, pendingMessages, awaitingConnection, process,
                 processOutputBuffer, sendCalls, connectCalls, wire, everConnected, everLost>>

\* The messages the callers of sendMessage send.
IpcRequests == {Request("m1", "a"), Request("m2", "e-acute")}

\* A sendMessage that refuses every message.
IsDuplicate_Always(message) == TRUE

\* A sendMessage without its duplicate check.
IsDuplicate_Never(message) == FALSE

\* The duplicate check of sendMessage (ipc.service.ts:135).
IsDuplicate(message) == message.messageId \in DOMAIN pendingMessages

\* IPCService.sendMessage up to the race (ipc.service.ts:130-156).
SendMessage(message) ==
  /\ Len(connectCalls) + Len(sendCalls) < MaxCalls
  /\ IF IsDuplicate(message)
     THEN /\ sendCalls' = Append(sendCalls, [messageId |-> message.messageId,
                                             state |-> "duplicate", value |-> [duplicate |-> message.messageId]])
          /\ UNCHANGED <<pendingMessages, procs>>
     ELSE /\ sendCalls' = Append(sendCalls, [messageId |-> message.messageId,
                                             state |-> "waiting", value |-> [pending |-> TRUE]])
          /\ pendingMessages' = [id \in DOMAIN pendingMessages \cup {message.messageId} |->
                                   IF id = message.messageId THEN Len(sendCalls) + 1
                                   ELSE pendingMessages[id]]
          /\ procs' = IF process # 0
                      THEN [procs EXCEPT ![process].stdin = Append(@, sendIpcMessage(message))]
                      ELSE procs
  /\ ipcEvent' = NoData
  /\ UNCHANGED <<connectionState, awaitingConnection, process, processOutputBuffer,
                 connectCalls, wire, everConnected, everLost>>

\* What the timeout of call i leaves in the pending table.  race() rejects the promise
\* sendMessage already returned (ipc.service.ts:152-156: the promise is returned, not
\* awaited, inside the try), so the catch block of lines 157-162 does not run.
PendingAfterTimeout(i) == pendingMessages

\* The timer of race() fires for call i (ipc.service.ts:149-162).
Timeout(i) ==
  /\ sendCalls[i].state = "waiting"
  /\ sendCalls' = [sendCalls EXCEPT ![i] = [@ EXCEPT !.state = "timedout", !.value = [timeout |-> sendCalls[i].messageId]]]
  /\ pendingMessages' = PendingAfterTimeout(i)
  /\ ipcEvent' = NoData
  /\ UNCHANGED <<connectionState, awaitingConnection, process, processOutputBuffer, procs,
                 connectCalls, wire, everConnected, everLost>>

\* A stdout "data" event of process p carrying exactly one frame (ipc.service.ts:95-97).
IpcData(p, m) ==
  /\ procs[p].state = "running"
  /\ processIpcMessage(Frame(m))
  /\ procs' = [procs EXCEPT ![p].started = TRUE]
  /\ UNCHANGED <<process, wire>>

(***************************************************************************)
(* Byte level: the worker writes frames to its stdout and the pipe cuts    *)
(* the stream into data events wherever it likes.                          *)
(***************************************************************************)
FrameMessages == {ConnectedMsg, Response("m1"), Request("m2", "e-acute")}

\* The state after the first connect() (ipc.service.ts:64-93): one process, connecting.
FrameInit ==
  /\ connectionState = "connecting"
  /\ pendingMessages = <<>>
  /\ awaitingConnection = {1}
  /\ process = 1
  /\ processOutputBuffer = <<>>
  /\ procs = <<NewProcess>>
  /\ sendCalls = <<>>
  /\ connectCalls = <<"waiting">>
  /\ wire = <<>>
  /\ ipcEvent = NoData
  /\ everConnected = FALSE
  /\ everLost = FALSE

\* The worker writes the frame of message m to its stdout.
WorkerWrite(m) ==
  /\ Len(wire) + Len(Frame(m)) <= MaxWireBytes
  /\ wire' = wire \o Frame(m)
  /\ ipcEvent' = NoData
  /\ UNCHANGED <<connectionState, pendingMessages, awaitingConnection, process,
                 processOutputBuffer, procs, sendCalls, connectCalls, everConnected, everLost>>

\* A stdout "data" event delivering the next n bytes of the stream.
StdoutData(n) ==
  /\ n \in 1..Len(wire)
  /\ Len(processOutputBuffer) + n <= MaxBufBytes
  /\ processIpcMessage(SubSeq(wire, 1, n))
  /\ wire' = SubSeq(wire, n + 1, Len(wire))
  /\ procs' = [procs EXCEPT ![1].started = TRUE]
  /\ UNCHANGED process

IpcNext ==
  \/ Connect /\ UNCHANGED sessVars
  \/ \E p \in DOMAIN procs : ProcessError(p) /\ UNCHANGED sessVars
  \/ \E p \in DOMAIN procs : ProcessExit(p) /\ UNCHANGED sessVars
  \/ Disconnect /\ UNCHANGED sessVars
  \/ \E message \in IpcRequests : SendMessage(message) /\ UNCHANGED sessVars
  \/ \E i \in DOMAIN sendCalls : Timeout(i) /\ UNCHANGED sessVars
  \/ \E p \in DOMAIN procs, m \in WorkerMessages : IpcData(p, m) /\ UNCHANGED sessVars

FrameNext ==
  \/ \E m \in FrameMessages : WorkerWrite(m) /\ UNCHANGED sessVars
  \/ \E n \in 1..Len(wire) : StdoutData(n) /\ UNCHANGED sessVars

SessIdle == sess = <<>> /\ op = <<>> /\ surf = <<>> /\ toUi = <<>> /\ toBg = <<>>
            /\ removed = {} /\ authStatus = "Unlocked" /\ opsStarted = 0

IpcSpecInit   == IpcInit /\ SessIdle
FrameSpecInit == FrameInit /\ SessIdle

IpcSpec   == IpcSpecInit /\ [][IpcNext]_vars
FrameSpec == FrameSpecInit /\ [][FrameNext]_vars

(***************************************************************************)
(* The session broker: BrowserFido2UserInterfaceSession (unnamed/part_000) *)
(* and the popout's Fido2Component (unnamed/part_001).                     *)
(*                                                                         *)
(* A session id is the session's index; 0 stands for undefined (the        *)
(* sessionId field of a Fido2Component before its first inbound message).  *)
(* A popout's window or tab id is its index in surf.                       *)
(***************************************************************************)
MaxSessions == 2   \* sessions created per behaviour
MaxSurfaces == 2   \* popouts opened per behaviour
MaxOps      == 2   \* public operations invoked per behaviour
MaxQueue    == 1   \* broadcast messages in flight when a caller or user acts

Sessions == 1..MaxSessions

\* An optional JavaScript value: undefined, or a defined boolean.
Undefined  == [defined |-> FALSE, value |-> FALSE]
Defined(b) == [defined |-> TRUE, value |-> b]
Field(m, f) == IF f \in DOMAIN m THEN Defined(m[f]) ELSE Undefined

\* BrowserFido2Message (part_000:40-112).
ConnectResponse(sid)          == [type |-> "ConnectResponse", sessionId |-> sid]
NewSessionCreatedRequest(sid) == [type |-> "NewSessionCreatedRequest", sessionId |-> sid]
AbortRequest(sid)             == [type |-> "AbortRequest", sessionId |-> sid]
AbortResponse(sid, fallback)  == [type |-> "AbortResponse", sessionId |-> sid,
                                  fallbackRequested |-> fallback]

\* The operations of a session that send a request and await its response, the
\* parameters their callers pass, and the response type each awaits.
RequestOps == {"pickCredential", "confirmNewCredential", "confirmNewNonDiscoverableCredential",
               "informExcludedCredential", "informCredentialNotFound"}
OpKinds    == RequestOps \cup {"ensureUnlockedVault"}

OpArgs(kind, B) ==
  CASE kind = "pickCredential" ->
         {[cipherIds |-> <<"c1", "c2">>, userVerification |-> uv] : uv \in B}
    [] kind \in {"confirmNewCredential", "confirmNewNonDiscoverableCredential"} ->
         {[credentialName |-> "name", userName |-> "user", userVerification |-> uv] : uv \in B}
    [] kind = "informExcludedCredential" -> {[existingCipherIds |-> <<"c1">>]}
    [] OTHER -> {[none |-> TRUE]}

ResponseType(kind) ==
  CASE kind = "pickCredential" -> "PickCredentialResponse"
    [] kind = "confirmNewCredential" -> "ConfirmNewCredentialResponse"
    [] kind = "confirmNewNonDiscoverableCredential" -> "ConfirmNewNonDiscoverableCredentialResponse"
    [] OTHER -> "AbortResponse"

RequestFallback_Never(s) == FALSE

\* The fallbackSupported value a request carries (part_000:240, 260, 280, 294, 314).
RequestFallback(s) == sess[s].fallbackSupported

\* The request message each operation builds (part_000:235-241, 254-261, 274-281,
\* 290-295, 311-315).
RequestOf(s, kind, arg) ==
  CASE kind = "pickCredential" ->
         [type |-> "PickCredentialRequest", cipherIds |-> arg.cipherIds, sessionId |-> s,
          userVerification |-> arg.userVerification, fallbackSupported |-> RequestFallback(s)]
    [] kind = "confirmNewCredential" ->
         [type |-> "ConfirmNewCredentialRequest", sessionId |-> s,
          credentialName |-> arg.credentialName, userName |-> arg.userName,
          userVerification |-> arg.userVerification, fallbackSupported |-> RequestFallback(s)]
    [] kind = "confirmNewNonDiscoverableCredential" ->
         [type |-> "ConfirmNewNonDiscoverableCredentialRequest", sessionId |-> s,
          credentialName |-> arg.credentialName, userName |-> arg.userName,
          userVerification |-> arg.userVerification, fallbackSupported |-> RequestFallback(s)]
    [] kind = "informExcludedCredential" ->
         [type |-> "InformExcludedCredentialRequest", sessionId |-> s,
          existingCipherIds |-> arg.existingCipherIds, fallbackSupported |-> RequestFallback(s)]
    [] OTHER ->
         [type |-> "InformCredentialNotFoundRequest", sessionId |-> s,
          fallbackSupported |-> RequestFallback(s)]

\* What each operation returns for the response it received (part_000:246, 266, 286,
\* 298, 318).
ResultOf(kind, response) ==
  CASE kind = "pickCredential" ->
         [cipherId |-> response.cipherId, userVerified |-> Field(response, "userVerified")]
    [] kind = "confirmNewCredential" ->
         [confirmed |-> TRUE, userVerified |-> Field(response, "userVerified")]
    [] kind = "confirmNewNonDiscoverableCredential" ->
         [cipherId |-> response.cipherId, userVerified |-> Field(response, "userVerified")]
    [] OTHER -> [void |-> TRUE]

\* A session that was not created yet, and the fields the constructor sets
\* (part_000:156-172, 225).
NoSession == [created |-> FALSE, fallbackSupported |-> FALSE, closed |-> FALSE,
              connected |-> FALSE, aborted |-> FALSE, reason |-> "none",
              popout |-> 0, watched |-> {}]
\* No operation running: its caller has not called, or the last call has settled.
NoOp == [kind |-> "none", pc |-> "idle", cp |-> "none", arg |-> [none |-> TRUE],
         opening |-> 0, result |-> [none |-> TRUE]]

SessInit ==
  /\ sess = [s \in Sessions |-> NoSession]
  /\ op = [s \in Sessions |-> NoOp]
  /\ surf = <<>>
  /\ toUi = <<>>
  /\ toBg = <<>>
  /\ removed = {}
  /\ authStatus \in {"LoggedOut", "Locked", "Unlocked"}
  /\ opsStarted = 0

(***************************************************************************)
(* The handlers of a session change several things at once: they are       *)
(* written as functions on a record W of the broker's variables.           *)
(***************************************************************************)
World == [sess |-> sess, op |-> op, surf |-> surf, toUi |-> toUi, toBg |-> toBg]

Apply(W) ==
  /\ sess' = W.sess /\ op' = W.op /\ surf' = W.surf /\ toUi' = W.toUi /\ toBg' = W.toBg

\* BrowserFido2UserInterfaceSession.sendMessage (part_000:152-154), called by the
\* background, and Fido2Component.send (part_001:188-193), called by popout u.
sendMessage(W, msg) == [W EXCEPT !.toUi = Append(@, msg)]
UiSend(W, u, msg)   == [W EXCEPT !.toBg = Append(@, [from |-> u, msg |-> msg])]

\* popupUtilsService.closePopOut(popout): asks the browser to close the window or tab.
closePopOut(W, u) ==
  IF u # 0 /\ W.surf[u].state = "open" THEN [W EXCEPT !.surf[u].state = "closing"] ELSE W

\* A call settles: its promise resolves or rejects and its locals are gone.
Settle(o, pc, result) == [o EXCEPT !.pc = pc, !.result = result, !.cp = "none", !.opening = 0,
                                   !.arg = NoOp.arg]
Reject(o, error)      == Settle(o, "rejected", [error |-> error])

DestroyReceive_Keep(o) == o

\* What destroy$.next() does to a receive() that is subscribed (part_000:343-353).
DestroyReceive(o) == IF o.pc = "receiving" THEN Reject(o, "SessionClosedError") ELSE o

close_Toggle(W, s) == [W EXCEPT !.sess[s].closed = ~@]

\* BrowserFido2UserInterfaceSession.close (part_000:321-326).  destroy$.next() reaches
\* the subscriptions made before the first close(); on a completed Subject it is a
\* no-op.
close(W, s) ==
  LET first == ~W.sess[s].closed
      W1    == closePopOut(W, W.sess[s].popout)
  IN [W1 EXCEPT !.sess[s].closed = TRUE,
                !.sess[s].watched = IF first THEN {} ELSE @,
                !.op[s] = IF first THEN DestroyReceive(@) ELSE @]

RejectConnect_Keep(o) == o

\* The abort listener of a running connect() (part_000:367-369).
RejectConnect(o) ==
  IF o.cp # "pending" THEN o
  ELSE IF o.pc = "awaitConnect" THEN Reject(o, "SessionClosedError")
  ELSE [o EXCEPT !.cp = "rejected"]

OnAbortEvent_Ignore(W, s) == W

\* The constructor's handler of the abort event (part_000:185-193).
OnAbortEvent(W, s) ==
  IF W.sess[s].closed THEN W ELSE sendMessage(close(W, s), AbortRequest(s))

AbortReason_Plain(fallback) == "plain"

\* The reason abort() gives the controller: UserRequestedFallbackAbortReason or none
\* (part_000:329).
AbortReason(fallback) == IF fallback THEN "fallback" ELSE "plain"

\* abortController.abort(reason): BrowserFido2UserInterfaceSession.abort
\* (part_000:328-330), or the relying party aborting its controller.  The abort event
\* fires once, first on the constructor's listener, then on connect()'s.
abort(W, s, fallback) ==
  IF W.sess[s].aborted THEN W
  ELSE LET W1 == [W EXCEPT !.sess[s].aborted = TRUE,
                           !.sess[s].reason = AbortReason(fallback)]
           W2 == OnAbortEvent(W1, s)
       IN [W2 EXCEPT !.op[s] = RejectConnect(@)]

\* send() after connect() returned (part_000:336), then receive() subscribes
\* (part_000:343-348); ensureUnlockedVault just returns (part_000:301-304).
AfterConnect(W, s) ==
  LET o == W.op[s] IN
  IF o.kind = "ensureUnlockedVault"
  THEN [W EXCEPT !.op[s] = Settle(o, "resolved", [void |-> TRUE])]
  ELSE [sendMessage(W, RequestOf(s, o.kind, o.arg))
          EXCEPT !.op[s] = [o EXCEPT !.pc = "receiving", !.cp = "none", !.opening = 0]]

SessionFilter_Any(s, msg) == TRUE

\* The messages$ filter of a session (part_000:157-159).
SessionFilter(s, msg) == msg.sessionId = s

\* The constructor's ConnectResponse handler (part_000:174-182) and, through
\* connected$, the connect() that awaits it (part_000:364-366, 427).
OnConnectResponse(W, s) ==
  IF W.sess[s].closed \/ W.sess[s].connected THEN W
  ELSE LET W1 == [W EXCEPT !.sess[s].connected = TRUE] IN
       IF W1.op[s].cp # "pending" THEN W1
       ELSE IF W1.op[s].pc = "awaitConnect" THEN AfterConnect(W1, s)
       ELSE [W1 EXCEPT !.op[s].cp = "resolved"]

\* The constructor's AbortResponse handler (part_000:196-207).
OnAbortResponse(W, s, msg) ==
  IF W.sess[s].closed THEN W ELSE abort(close(W, s), s, msg.fallbackRequested)

\* The subscription of receive() (part_000:343-349).
OnReceive(W, s, msg) ==
  LET o == W.op[s] IN
  IF o.pc = "receiving" /\ msg.sessionId = s /\ msg.type = ResponseType(o.kind)
  THEN [W EXCEPT !.op[s] = Settle(o, "resolved", ResultOf(o.kind, msg))]
  ELSE W

\* One broadcast message reaching session s: its subscriptions run in the order they
\* were made (part_000:174-207, 343-349).
SessionOnMessage(W, s, msg) ==
  IF ~W.sess[s].created \/ ~SessionFilter(s, msg) THEN W
  ELSE LET W1 == IF msg.type = "ConnectResponse" THEN OnConnectResponse(W, s) ELSE W
           W2 == IF msg.type = "AbortResponse" THEN OnAbortResponse(W1, s, msg) ELSE W1
       IN OnReceive(W2, s, msg)

RECURSIVE SessionsOnMessage(_, _, _)
SessionsOnMessage(W, s, msg) ==
  IF s > MaxSessions THEN W ELSE SessionsOnMessage(SessionOnMessage(W, s, msg), s + 1, msg)

(***************************************************************************)
(* The popout: a window or tab and, once its route is the ceremony route,  *)
(* the Fido2Component in it (unnamed/part_001).                            *)
(***************************************************************************)
RouteFor_Ceremony(status) == "fido2"

\* The route connect() opens for an authentication status (part_000:373-401).
RouteFor(status) ==
  CASE status = "LoggedOut" -> "home" [] status = "Locked" -> "lock" [] OTHER -> "fido2"

\* data$ before any message (part_001:34).
NullData == [type |-> "null"]

\* The popout popOut() creates: its sessionId query parameter, its kind, its route,
\* and the fields of the Fido2Component (part_001:32-37), which is not there yet.
NewSurface(s, route, kind) ==
  [session |-> s, kind |-> kind, route |-> route, state |-> "open",
   comp |-> "none", sessionId |-> 0, data |-> NullData, prompt |-> "none"]

\* Fido2Component.unload (part_001:174-181).
unload(W, u, fallback) == UiSend(W, u, AbortResponse(W.surf[u].sessionId, fallback))

\* Fido2Component.abort (part_001:169-172): window.close() asks the browser to close
\* the popout; the unload event follows when it does.
UiAbortOp(W, u, fallback) ==
  LET W1 == unload(W, u, fallback)
  IN [W1 EXCEPT !.surf[u].state = "closing"]

\* The message listener of the Fido2Component (part_001:51-68).
UiOnMessage(W, u, msg) ==
  LET sessionId == W.surf[u].session
      W1 == [W EXCEPT !.surf[u].sessionId = sessionId]
  IN IF msg.type = "NewSessionCreatedRequest" /\ msg.sessionId # sessionId THEN UiAbortOp(W1, u, FALSE)
     ELSE IF msg.sessionId # sessionId THEN W1
     ELSE IF msg.type = "AbortRequest" THEN UiAbortOp(W1, u, FALSE)
     ELSE [W1 EXCEPT !.surf[u].data = msg]

\* A broadcast message reaching every popout that listens, except its sender.
RECURSIVE UisOnMessage(_, _, _, _)
UisOnMessage(W, u, from, msg) ==
  IF u > Len(W.surf) THEN W
  ELSE UisOnMessage(IF u # from /\ W.surf[u].comp = "ready" THEN UiOnMessage(W, u, msg) ELSE W,
                    u + 1, from, msg)

(***************************************************************************)
(* The actions of the session broker.                                      *)
(***************************************************************************)
\* BrowserFido2UserInterfaceSession.create and the constructor (part_000:136-223).
NewSession(s, fallbackSupported) ==
  /\ ~sess[s].created
  /\ \A t \in Sessions : t < s => sess[t].created
  /\ Len(toUi) < MaxQueue
  /\ sess' = [sess EXCEPT ![s] = [NoSession EXCEPT !.created = TRUE,
                                                   !.fallbackSupported = fallbackSupported]]
  /\ toUi' = Append(toUi, NewSessionCreatedRequest(s))
  /\ UNCHANGED <<op, surf, toBg, removed, authStatus, opsStarted>>

IsConnected_Always(s) == TRUE

\* Whether send() may skip connect() (part_000:333).
IsConnected(s) == sess[s].connected

\* Whether the operation goes through send(), which connects only when needed
\* (part_000:332-337); ensureUnlockedVault calls connect() itself (part_000:301-304).
SkipsConnect(s, kind) == kind \in RequestOps /\ IsConnected(s)

CannotReopen_Never(s) == FALSE

\* The check connect() makes on entry (part_000:359-361).
CannotReopen(s) == sess[s].closed

\* The caller of session s invokes a public operation: the operation runs up to its
\* first await (part_000:231-319, 332-337, 358-373).
StartOp(s, kind, arg) ==
  /\ sess[s].created
  /\ op[s].pc \in {"idle", "resolved", "rejected"}
  /\ opsStarted < MaxOps
  /\ Len(toUi) < MaxQueue
  /\ opsStarted' = opsStarted + 1
  /\ LET o == [NoOp EXCEPT !.kind = kind, !.arg = arg]
         W == [World EXCEPT !.op[s] = o]
     IN IF SkipsConnect(s, kind) THEN Apply(AfterConnect(W, s))
        ELSE IF CannotReopen(s)
        THEN Apply([W EXCEPT !.op[s] = Reject(o, "Cannot re-open closed session")])
        ELSE Apply([W EXCEPT !.op[s] = [o EXCEPT !.pc = "authStatus",
                                                !.cp = IF sess[s].connected THEN "resolved"
                                                       ELSE "pending"]])
  /\ UNCHANGED <<removed, authStatus>>

\* The kinds of popout popOut() can answer with: the platform decides between windows
\* and tabs, once for all popouts.
PopoutKinds == IF surf = <<>> THEN {"window", "tab"} ELSE {surf[1].kind}

\* authService.getAuthStatus() answers and connect() calls popOut (part_000:373-401):
\* the browser creates the window or tab.
AuthStatusResolved(s, kind) ==
  /\ op[s].pc = "authStatus"
  /\ Len(surf) < MaxSurfaces
  /\ kind \in PopoutKinds
  /\ surf' = Append(surf, NewSurface(s, RouteFor(authStatus), kind))
  /\ op' = [op EXCEPT ![s].pc = "opening", ![s].opening = Len(surf) + 1]
  /\ UNCHANGED <<sess, toUi, toBg, removed, authStatus, opsStarted>>

\* popOut() answers: connect() keeps the popout, subscribes to its removal and awaits
\* connectPromise (part_000:379-427).
PopOutResolved(s) ==
  /\ op[s].pc = "opening"
  /\ LET u  == op[s].opening
         W1 == [World EXCEPT !.sess[s].popout = u, !.sess[s].watched = @ \cup {u}]
     IN CASE op[s].cp = "resolved" -> Apply(AfterConnect(W1, s))
          [] op[s].cp = "rejected" -> Apply([W1 EXCEPT !.op[s] = Reject(@, "SessionClosedError")])
          [] OTHER -> Apply([W1 EXCEPT !.op[s].pc = "awaitConnect", !.op[s].opening = 0])
  /\ UNCHANGED <<removed, authStatus, opsStarted>>

\* The caller of session s calls close() (part_000:321-326).
CallerClose(s) ==
  /\ sess[s].created
  /\ Apply(close(World, s))
  /\ UNCHANGED <<removed, authStatus, opsStarted>>

\* The relying party aborts the AbortController of session s (part_000:171, 185-193).
RpAbort(s) ==
  /\ sess[s].created /\ ~sess[s].aborted
  /\ Apply(abort(World, s, FALSE))
  /\ UNCHANGED <<removed, authStatus, opsStarted>>

\* The oldest message sent by a popout reaches the background's sessions and the
\* other popouts.
DeliverToBg ==
  /\ toBg # <<>>
  /\ LET e  == Head(toBg)
         W1 == SessionsOnMessage([World EXCEPT !.toBg = Tail(toBg)], 1, e.msg)
     IN Apply(UisOnMessage(W1, 1, e.from, e.msg))
  /\ UNCHANGED <<removed, authStatus, opsStarted>>

\* The oldest message sent by the background reaches the popouts.
DeliverToUi ==
  /\ toUi # <<>>
  /\ Apply(UisOnMessage([World EXCEPT !.toUi = Tail(toUi)], 1, 0, Head(toUi)))
  /\ UNCHANGED <<removed, authStatus, opsStarted>>

\* The handlers connect() subscribes to chrome.windows.onRemoved (part_000:403-425).
RECURSIVE SessionsOnRemoved(_, _, _)
SessionsOnRemoved(W, s, id) ==
  IF s > MaxSessions THEN W
  ELSE SessionsOnRemoved(IF id \in W.sess[s].watched THEN abort(close(W, s), s, FALSE) ELSE W,
                         s + 1, id)

\* chrome.windows.onRemoved fires for window id (part_000:209-217).
OnRemoved(id) ==
  /\ id \in removed
  /\ removed' = removed \ {id}
  /\ Apply(SessionsOnRemoved(World, 1, id))
  /\ UNCHANGED <<authStatus, opsStarted>>

\* The popout reaches the ceremony route (at once, or after the user logged in or
\* unlocked) and Fido2Component.ngOnInit runs (part_001:45-115).
UiInit(u) ==
  /\ surf[u].state = "open" /\ surf[u].comp = "none"
  /\ authStatus' = "Unlocked"
  /\ Apply(UiSend([World EXCEPT !.surf[u].comp = "ready"], u, ConnectResponse(surf[u].session)))
  /\ UNCHANGED <<removed, opsStarted>>

\* What the password reprompt did for a request: it is shown only when the request asks
\* for user verification, and reprompt is what it answers then (part_001:126-129,
\* 156-159).
PromptFor(data, reprompt) ==
  IF data.userVerification THEN (IF reprompt THEN "ok" ELSE "failed") ELSE "none"

UserVerified_Always(data, reprompt) == TRUE

\* The userVerified a popout sends for a request (part_001:126-129, 156-159).
UserVerified(data, reprompt) == IF data.userVerification THEN reprompt ELSE FALSE

\* The user picks a cipher: Fido2Component.pick (part_001:117-140).  reprompt is what
\* the password reprompt answers when it is shown.
UiPick(u, cipherId, reprompt) ==
  /\ surf[u].state = "open" /\ surf[u].comp = "ready"
  /\ Len(toBg) < MaxQueue
  /\ LET data == surf[u].data IN
     CASE data.type = "PickCredentialRequest" ->
            /\ ~reprompt
            /\ Apply(UiSend(World, u, [sessionId |-> surf[u].sessionId, cipherId |-> cipherId,
                                       type |-> "PickCredentialResponse"]))
       [] data.type = "ConfirmNewNonDiscoverableCredentialRequest" ->
            /\ reprompt => data.userVerification
            /\ Apply(UiSend([World EXCEPT !.surf[u].prompt = PromptFor(data, reprompt)], u,
                             [sessionId |-> surf[u].sessionId, cipherId |-> cipherId,
                              type |-> "ConfirmNewNonDiscoverableCredentialResponse",
                              userVerified |-> UserVerified(data, reprompt)]))
       [] OTHER -> FALSE
  /\ UNCHANGED <<removed, authStatus, opsStarted>>

\* The user confirms the new credential: Fido2Component.confirmNew (part_001:150-167).
UiConfirmNew(u, reprompt) ==
  /\ surf[u].state = "open" /\ surf[u].comp = "ready"
  /\ Len(toBg) < MaxQueue
  /\ surf[u].data.type = "ConfirmNewCredentialRequest"
  /\ reprompt => surf[u].data.userVerification
  /\ Apply(UiSend([World EXCEPT !.surf[u].prompt = PromptFor(surf[u].data, reprompt)], u,
                   [sessionId |-> surf[u].sessionId,
                    type |-> "ConfirmNewCredentialResponse",
                    userVerified |-> UserVerified(surf[u].data, reprompt)]))
  /\ UNCHANGED <<removed, authStatus, opsStarted>>

\* The user cancels or asks for the browser's fallback: Fido2Component.abort
\* (part_001:169-172).
UiAbort(u, fallback) ==
  /\ surf[u].state = "open" /\ surf[u].comp = "ready"
  /\ Len(toBg) < MaxQueue
  /\ Apply(UiAbortOp(World, u, fallback))
  /\ UNCHANGED <<removed, authStatus, opsStarted>>

\* The window or tab goes away, closed by the user or as the browser was asked to: the
\* component's window:unload listener runs (part_001:174-181) and, for a window,
\* chrome.windows.onRemoved will fire.
SurfaceUnload(u) ==
  /\ surf[u].state \in {"open", "closing"}
  /\ LET W1 == IF surf[u].comp = "ready" THEN unload(World, u, FALSE) ELSE World
     IN Apply([W1 EXCEPT !.surf[u] = [@ EXCEPT !.state = "closed", !.comp = "gone",
                                               !.sessionId = 0, !.data = NullData,
                                               !.prompt = "none"]])
  /\ removed' = IF surf[u].kind = "window" THEN removed \cup {u} ELSE removed
  /\ UNCHANGED <<authStatus, opsStarted>>

\* The steps of the broker when the sessions S may be created, their callers invoke
\* the operations kinds, the boolean inputs (fallbackSupported, userVerification, the
\* user's fallback request) range over B, the user picks among the ciphers C and
\* popOut() answers with a popout of a kind in K.
SessionNext(S, kinds, B, C, K) ==
  \/ \E s \in S, fb \in B : NewSession(s, fb) /\ UNCHANGED ipcVars
  \/ \E s \in S, kind \in kinds : \E arg \in OpArgs(kind, B) : StartOp(s, kind, arg) /\ UNCHANGED ipcVars
  \/ \E s \in S, kind \in K : AuthStatusResolved(s, kind) /\ UNCHANGED ipcVars
  \/ \E s \in S : PopOutResolved(s) /\ UNCHANGED ipcVars
  \/ \E s \in S : CallerClose(s) /\ UNCHANGED ipcVars
  \/ \E s \in S : RpAbort(s) /\ UNCHANGED ipcVars
  \/ DeliverToBg /\ UNCHANGED ipcVars
  \/ DeliverToUi /\ UNCHANGED ipcVars
  \/ \E id \in removed : OnRemoved(id) /\ UNCHANGED ipcVars
  \/ \E u \in DOMAIN surf : UiInit(u) /\ UNCHANGED ipcVars
  \/ \E u \in DOMAIN surf, c \in C, r \in BOOLEAN : UiPick(u, c, r) /\ UNCHANGED ipcVars
  \/ \E u \in DOMAIN surf, fb \in B : UiAbort(u, fb) /\ UNCHANGED ipcVars
  \/ \E u \in DOMAIN surf : SurfaceUnload(u) /\ UNCHANGED ipcVars

\* One session, every operation, every input.
Next ==
  \/ SessionNext({1}, OpKinds, BOOLEAN, {"c1", "c2"}, {"window", "tab"})
  \/ \E u \in DOMAIN surf, r \in BOOLEAN : UiConfirmNew(u, r) /\ UNCHANGED ipcVars

\* Two concurrent sessions whose callers pick a credential in an unlocked vault, the
\* other inputs fixed.
MultiKinds == {"pickCredential"}
MultiNext  == SessionNext(Sessions, MultiKinds, {TRUE}, {"c1"}, {"window"})
MultiInit  == SessInit /\ authStatus = "Unlocked" /\ IpcInit
Init       == SessInit /\ IpcInit

Spec      == Init /\ [][Next]_vars
MultiSpec == MultiInit /\ [][MultiNext]_vars

(***************************************************************************)
(* Properties of the IPC client.                                           *)
(***************************************************************************)
\* The step is a sendMessage() call for message id `id`.
IsSendStep(id) ==
  /\ Len(sendCalls') = Len(sendCalls) + 1
  /\ sendCalls'[Len(sendCalls')].messageId = id

\* The step is a stdout data event of FrameSpec; DataChunk is what it delivered and
\* DataInput the buffer contents the reassembly loop started on.
IsWireData == Len(wire') < Len(wire)
DataChunk  == SubSeq(wire, 1, Len(wire) - Len(wire'))
DataInput  == processOutputBuffer \o DataChunk

\* C2: a sendMessage whose messageId is pending rejects at once with the duplicate-id
\* error, writes nothing to the worker's stdin and leaves the pending table and the
\* earlier calls as they are; the first request is still resolved by its response.
C2_DuplicateRejected ==
  [][\A id \in MessageIds :
       /\ (IsSendStep(id) /\ id \in DOMAIN pendingMessages) =>
            /\ sendCalls'[Len(sendCalls')].state = "duplicate"
            /\ sendCalls'[Len(sendCalls')].value = [duplicate |-> id]
            /\ SubSeq(sendCalls', 1, Len(sendCalls)) = sendCalls
            /\ procs' = procs
            /\ pendingMessages' = pendingMessages
       /\ (/\ ipcEvent'.data /\ ipcEvent'.msgs = <<Response(id)>>
           /\ id \in DOMAIN pendingMessages
           /\ sendCalls[pendingMessages[id]].state = "waiting"
           /\ \E j \in DOMAIN sendCalls : sendCalls[j].messageId = id /\ sendCalls[j].state = "duplicate") =>
            /\ sendCalls'[pendingMessages[id]].state = "resolved"
            /\ sendCalls'[pendingMessages[id]].value = Response(id)
    ]_vars

\* C2 witness: a call was rejected as a duplicate and the first call with that id
\* has been resolved by its response.
C2_Witness ==
  \E i, j \in DOMAIN sendCalls :
    /\ i < j
    /\ sendCalls[i].messageId = sendCalls[j].messageId
    /\ sendCalls[j].state = "duplicate"
    /\ sendCalls[i].state = "resolved"

\* C3: when a request times out, sendMessage rejects with a timeout error naming the
\* messageId and the id leaves the pending table; a message with that id arriving
\* afterwards goes to the unsolicited-message handler.
C3_TimeoutClearsPending ==
  [][\A i \in DOMAIN sendCalls :
       /\ (sendCalls[i].state = "waiting" /\ sendCalls'[i].state = "timedout") =>
            /\ sendCalls'[i].value = [timeout |-> sendCalls[i].messageId]
            /\ sendCalls[i].messageId \notin DOMAIN pendingMessages'
       /\ (/\ sendCalls[i].state = "timedout"
           /\ \A j \in DOMAIN sendCalls : sendCalls[j].messageId = sendCalls[i].messageId => sendCalls[j].state # "waiting"
           /\ ipcEvent'.data /\ ipcEvent'.msgs = <<Response(sendCalls[i].messageId)>>) =>
            ipcEvent'.handler = <<Response(sendCalls[i].messageId)>>
    ]_vars

\* Whether bytes hold a length prefix N and fewer than N payload bytes.
IncompleteFrame(bytes) == Len(bytes) >= 4 /\ Len(bytes) < ReadUInt32LE(bytes) + 4

\* C4: a data event that leaves the buffer with a length prefix N and fewer than N
\* payload bytes parses nothing, dispatches nothing and keeps the bytes; the data
\* event that completes the frame dispatches exactly that one message.
C4_NoIncompleteParse ==
  [][(IsWireData /\ IncompleteFrame(DataInput)) =>
       /\ ~ipcEvent'.threw
       /\ ipcEvent'.msgs = <<>>
       /\ processOutputBuffer' = DataInput
    ]_vars

\* C5: a data event that delivers k >= 2 complete frames to an empty buffer dispatches
\* the k messages in order and leaves the buffer empty.
C5_AllFramesDispatched ==
  [][\A a, b \in FrameMessages :
       (IsWireData /\ processOutputBuffer = <<>> /\ DataChunk = Frame(a) \o Frame(b)) =>
         /\ ipcEvent'.msgs = <<a, b>>
         /\ processOutputBuffer' = <<>>
    ]_vars

\* C6 as stated: the connect() calls made before the readiness signal spawn exactly
\* one worker process in total.
C6_OneSpawnBeforeReady ==
  (~everConnected /\ Len(connectCalls) >= 1) => Len(procs) = 1

\* C6 amended: as long as no process has exited and no {command:"disconnected"} has
\* been received, the connect() calls made before the readiness signal spawn exactly
\* one worker process in total, and every one of them that is still waiting is
\* resolved when {command:"connected"} is dispatched.
C6_OneSpawnPerAttempt ==
  [][/\ (~everConnected' /\ ~everLost' /\ Len(connectCalls') >= 1) => Len(procs') = 1
     /\ (ipcEvent'.data /\ ipcEvent'.msgs = <<ConnectedMsg>>) =>
          /\ awaitingConnection' = {}
          /\ connectionState' = "connected"
          /\ \A c \in DOMAIN connectCalls :
               connectCalls[c] = "waiting" => (c \in awaitingConnection /\ connectCalls'[c] = "resolved")
    ]_vars

\* C6 witness: two connect() calls were made before readiness, one process was
\* spawned, and both calls have been resolved.
C6_Witness ==
  /\ Len(connectCalls) = 2 /\ Len(procs) = 1 /\ ~everLost
  /\ connectCalls[1] = "resolved" /\ connectCalls[2] = "resolved"


(***************************************************************************)
(* Properties of the session broker.                                       *)
(***************************************************************************)
\* The step that delivers the oldest message of a popout to the background.
IsDeliveryToBg == toBg # <<>> /\ toBg' = Tail(toBg)

\* The step in which the caller of session s invokes an operation.
IsCall(s) == opsStarted' = opsStarted + 1 /\ op'[s] # op[s]

\* The popouts opened for session s, whatever became of them.
SurfacesOf(s) == {u \in DOMAIN surf : surf[u].session = s}

\* C1: when a message sent by a popout is delivered, a session whose id is not the
\* message's sessionId is left as it was: its pending receive is not resolved, it is
\* not marked connected, and it is neither closed nor aborted.
C1_SessionIsolation ==
  [][\A b \in Sessions :
       (IsDeliveryToBg /\ sess[b].created /\ Head(toBg).msg.sessionId # b)
         => (sess'[b] = sess[b] /\ op'[b] = op[b])]_vars

\* Two live sessions: the pickCredential of one was resolved by its response while
\* the pickCredential of the other keeps waiting for its own.
C1_Witness ==
  \E a, b \in Sessions :
    /\ a # b
    /\ op[a].kind = "pickCredential" /\ op[a].pc = "resolved"
    /\ op[b].kind = "pickCredential" /\ op[b].pc = "receiving"
    /\ sess[b].connected /\ ~sess[b].closed /\ ~sess[b].aborted

\* C7: when the abort signal of a session fires while its pickCredential waits for
\* the response, the call rejects in that very step.
C7_AbortRejectsPick ==
  [][\A s \in Sessions :
       (op[s].kind = "pickCredential" /\ op[s].pc = "receiving"
          /\ ~sess[s].aborted /\ sess'[s].aborted)
         => op'[s].pc = "rejected"]_vars

\* C8: pickCredential called on a connected session adds exactly one message to the
\* broadcast channel, the PickCredentialRequest with the session's id, the call's
\* cipherIds and userVerification and the session's fallbackSupported; and the
\* PickCredentialResponse of the session delivered while the call waits resolves it
\* with the response's cipherId and userVerified.
C8_PickCredential ==
  [][\A s \in Sessions :
       /\ (IsCall(s) /\ op'[s].kind = "pickCredential" /\ sess[s].connected)
            => /\ toUi' = Append(toUi, [type |-> "PickCredentialRequest",
                                        cipherIds |-> op'[s].arg.cipherIds,
                                        sessionId |-> s,
                                        userVerification |-> op'[s].arg.userVerification,
                                        fallbackSupported |-> sess[s].fallbackSupported])
               /\ op'[s].pc = "receiving"
       /\ (IsDeliveryToBg /\ op[s].kind = "pickCredential" /\ op[s].pc = "receiving"
             /\ Head(toBg).msg.type = "PickCredentialResponse"
             /\ Head(toBg).msg.sessionId = s)
            => /\ op'[s].pc = "resolved"
               /\ op'[s].result = [cipherId |-> Head(toBg).msg.cipherId,
                                   userVerified |-> Field(Head(toBg).msg, "userVerified")]]_vars

\* The second call of a session created with fallbackSupported, a pickCredential that
\* found the session connected to its only popout, has resolved with the cipher the
\* user picked.
C8_Witness ==
  /\ opsStarted = 2 /\ Len(surf) = 1
  /\ sess[1].connected /\ sess[1].fallbackSupported
  /\ op[1].kind = "pickCredential" /\ op[1].pc = "resolved"
  /\ op[1].result.cipherId = "c2"

\* C9: a session that is closed or aborted, and whose connect() is past getAuthStatus
\* and popOut, has no open popout.
C9_NoDanglingSurface ==
  \A s \in Sessions :
    ((sess[s].closed \/ sess[s].aborted) /\ op[s].pc \notin {"authStatus", "opening"})
      => \A u \in SurfacesOf(s) : surf[u].state # "open"

\* C10: at most one popout is ever opened for a session.
C10_OneSurfacePerSession ==
  \A s \in Sessions : Cardinality(SurfacesOf(s)) <= 1

\* C11: close() is idempotent: in every reachable state, calling close() twice in a
\* row leaves the session, its running call, the popouts and the broadcast channel
\* exactly as calling it once does.
C11_CloseIdempotent ==
  \A s \in Sessions : sess[s].created => close(close(World, s), s) = close(World, s)

\* A connected session was closed while its popout was open: the popout is being
\* closed, and close() may be called again.
C11_Witness ==
  /\ sess[1].closed /\ sess[1].connected /\ sess[1].popout # 0
  /\ surf[sess[1].popout].state = "closing"

\* The step broadcasts a request of session s (part_000:235-241, 254-261, 274-281,
\* 290-295, 311-315).
RequestTypes == {"PickCredentialRequest", "ConfirmNewCredentialRequest",
                 "ConfirmNewNonDiscoverableCredentialRequest",
                 "InformExcludedCredentialRequest", "InformCredentialNotFoundRequest"}
IsRequestBroadcast(s) ==
  /\ Len(toUi') = Len(toUi) + 1
  /\ toUi'[Len(toUi')].sessionId = s
  /\ toUi'[Len(toUi')].type \in RequestTypes

\* C12: no step taken while the closed flag of a session is true broadcasts a request
\* message of that session.
C12_NoRequestWhenClosed ==
  [][\A s \in Sessions : sess[s].closed => ~IsRequestBroadcast(s)]_vars

\* C13: the closed flag of a session never goes back from true to false, and a call
\* that enters connect() on a closed session (ensureUnlockedVault, or a request
\* operation on a session that is not connected) is rejected at once with the
\* "Cannot re-open closed session" error and opens no popout.
C13_NoReopen ==
  [][\A s \in Sessions :
       /\ sess[s].closed => sess'[s].closed
       /\ (IsCall(s) /\ sess[s].closed /\ ~(op'[s].kind \in RequestOps /\ sess[s].connected))
            => /\ op'[s].pc = "rejected"
               /\ op'[s].result = [error |-> "Cannot re-open closed session"]
               /\ surf' = surf]_vars

\* A call on a closed session was refused by connect().
C13_Witness ==
  /\ sess[1].closed
  /\ op[1].pc = "rejected" /\ op[1].result = [error |-> "Cannot re-open closed session"]

\* C14: the step in which a session is torn down (its closed flag becomes true) while
\* a request operation waits for its response rejects that operation with
\* SessionClosedError, which is not the reason of the abort signal.
C14_TeardownRejectsReceive ==
  [][\A s \in Sessions :
       (op[s].kind \in RequestOps /\ op[s].pc = "receiving" /\ ~sess[s].closed /\ sess'[s].closed)
         => /\ op'[s].pc = "rejected"
            /\ op'[s].result = [error |-> "SessionClosedError"]
            /\ op'[s].result.error # sess'[s].reason]_vars

\* A request operation was rejected with SessionClosedError by a close() that no
\* abort caused.
C14_Witness ==
  /\ sess[1].closed /\ ~sess[1].aborted
  /\ op[1].kind \in RequestOps /\ op[1].pc = "rejected"
  /\ op[1].result = [error |-> "SessionClosedError"]

\* C15: an AbortResponse with the session's id delivered while informExcludedCredential
\* or informCredentialNotFound waits for it resolves the call.
C15_InformResolves ==
  [][\A s \in Sessions :
       (/\ IsDeliveryToBg
        /\ op[s].kind \in {"informExcludedCredential", "informCredentialNotFound"}
        /\ op[s].pc = "receiving"
        /\ Head(toBg).msg.type = "AbortResponse"
        /\ Head(toBg).msg.sessionId = s)
         => op'[s].pc = "resolved"]_vars

\* The step is the "error" event of a worker process.
IsProcessError == \E p \in DOMAIN procs : procs[p].state = "running" /\ procs'[p].state = "failed"

\* C16: the "error" event of the worker process before the readiness signal rejects
\* every connect() call of the awaiting-connection set and leaves the set empty.
C16_ErrorRejectsWaiters ==
  [][IsProcessError =>
       /\ \A c \in awaitingConnection : connectCalls[c] = "waiting" /\ connectCalls'[c] = "rejected"
       /\ awaitingConnection' = {}]_vars

\* Two connect() calls were waiting when the process failed to spawn: both are rejected.
C16_Witness ==
  /\ Len(connectCalls) >= 2
  /\ connectCalls[1] = "rejected" /\ connectCalls[2] = "rejected"
  /\ awaitingConnection = {}
  /\ \E p \in DOMAIN procs : procs[p].state = "failed"

\* The step is the "exit" event of a worker process.
IsProcessExit == \E p \in DOMAIN procs : procs[p].state = "running" /\ procs'[p].state = "exited"

\* C17: after the "exit" or the "error" event of the worker process the connection
\* state is Disconnected.
C17_DisconnectedAfterLoss ==
  [][(IsProcessExit \/ IsProcessError) => connectionState' = "disconnected"]_vars

\* C18: a connect() call is never left waiting without a worker process that can
\* still settle it: when the process failed to spawn or exited, the calls that were
\* waiting for it have been rejected.
C18_NoOrphanWaiter ==
  \A c \in DOMAIN connectCalls :
    connectCalls[c] = "waiting" => \E p \in DOMAIN procs : procs[p].state = "running"

\* C19: the buffer a sendMessage hands to the worker's stdin is the 4-byte little-endian
\* count of the bytes of the message's UTF-8 JSON text followed by all those bytes.
C19_FrameIsByteCounted ==
  [][\A m \in IpcRequests :
       (IsSendStep(m.messageId) /\ sendCalls'[Len(sendCalls')].state = "waiting" /\ process # 0)
         => procs'[process].stdin = Append(procs[process].stdin, Frame(m))]_vars

\* C20: the pending table holds exactly the message ids of the sendMessage calls whose
\* promise has not settled.
C20_PendingIsUnsettled ==
  DOMAIN pendingMessages =
    {sendCalls[i].messageId : i \in {j \in DOMAIN sendCalls : sendCalls[j].state = "waiting"}}

\* C21: the step in which disconnect() asks a process to terminate is taken in a state
\* other than Disconnected, on the current process, and changes neither the
\* connection state nor the state of the process nor the two tables: the state
\* becomes Disconnected when the exit event is handled.
C21_DisconnectOnlyAsks ==
  [][\A p \in DOMAIN procs :
       (~procs[p].killed /\ procs'[p].killed)
         => /\ connectionState # "disconnected"
            /\ p = process
            /\ connectionState' = connectionState
            /\ procs'[p].state = procs[p].state
            /\ awaitingConnection' = awaitingConnection
            /\ pendingMessages' = pendingMessages]_vars

\* disconnect() asked the process to terminate, the process has exited and the exit
\* handler has set the state.
C21_Witness ==
  /\ connectionState = "disconnected" /\ everConnected
  /\ \E p \in DOMAIN procs : procs[p].killed /\ procs[p].state = "exited"

\* The step is a connect() call.
IsConnectStep == Len(connectCalls') = Len(connectCalls) + 1

\* C22: a connect() call made in the Connected state returns at once, spawns no
\* process and leaves the connection state, the awaiting-connection set and the
\* pending table as they are.
C22_ConnectWhenConnected ==
  [][(IsConnectStep /\ connectionState = "connected")
       => /\ connectCalls'[Len(connectCalls')] = "returned"
          /\ procs' = procs /\ process' = process
          /\ connectionState' = "connected"
          /\ awaitingConnection' = awaitingConnection
          /\ pendingMessages' = pendingMessages]_vars

\* A connect() call found the client connected and returned.
C22_Witness ==
  /\ connectionState = "connected" /\ Len(procs) = 1
  /\ \E c \in DOMAIN connectCalls : connectCalls[c] = "returned"

\* The step in which the relying party aborts session s: the abort signal fires and
\* neither a message nor a removal event is being handled.
IsRpAbort(s) == ~sess[s].aborted /\ sess'[s].aborted /\ ~IsDeliveryToBg /\ removed' = removed

\* C23: when the abort signal fires on a session that is not closed, the session is
\* closed and exactly one AbortRequest with its id is broadcast; and an AbortResponse
\* with its id delivered once the session is closed and aborted changes nothing in the
\* session, its running call included.
C23_AbortTeardown ==
  [][\A s \in Sessions :
       /\ (IsRpAbort(s) /\ ~sess[s].closed)
            => /\ sess'[s].closed
               /\ toUi' = Append(toUi, AbortRequest(s))
       /\ (/\ IsDeliveryToBg /\ sess[s].closed /\ sess[s].aborted
           /\ Head(toBg).msg.type = "AbortResponse" /\ Head(toBg).msg.sessionId = s)
            => /\ sess'[s] = sess[s]
               /\ op'[s] = op[s]]_vars


\* Popout u is gone and everything its going produced was handled: the removal event
\* fired and the messages it sent were delivered.
SurfaceGone(u) ==
  /\ surf[u].state = "closed"
  /\ u \notin removed
  /\ \A i \in DOMAIN toBg : toBg[i].from # u

\* C24: once the popout a session opened is gone without the session having received
\* its ConnectResponse, the session is closed and aborted and its operation no longer
\* waits, neither for the popout to connect nor for a response to a request.
C24_SurfaceClosedEarly ==
  \A s \in Sessions : \A u \in DOMAIN surf :
    (surf[u].session = s /\ SurfaceGone(u) /\ ~sess[s].connected)
      => /\ sess[s].closed /\ sess[s].aborted
         /\ op[s].pc \notin {"awaitConnect", "receiving"}

\* C25: once the popout connect() kept for a session, a window or a tab, is gone, the
\* session is closed and aborted.
C25_SurfaceClosedDetected ==
  \A s \in Sessions : \A u \in DOMAIN surf :
    (sess[s].popout = u /\ SurfaceGone(u)) => (sess[s].closed /\ sess[s].aborted)

IsDeliveryToUi == toUi # <<>> /\ toUi' = Tail(toUi)

\* Popout u is open and its Fido2Component listens.
Listening(u) == surf[u].state = "open" /\ surf[u].comp = "ready"

IsAbortStep(s) == ~sess[s].aborted /\ sess'[s].aborted

\* The call of session s is inside connect() and the session is not connected.
WaitsForConnected(s) ==
  op[s].pc \in {"authStatus", "opening", "awaitConnect"} /\ ~sess[s].connected

\* The connect() of session s has rejected, or will as soon as it awaits connectPromise.
ConnectRejects(o) == o.pc = "rejected" \/ o.cp = "rejected"

\* C28: a step that triggers the abort signal while the call of the session waits in
\* connect() for the popout to connect rejects connectPromise: the call rejects at once
\* when it awaits the promise, and otherwise when it comes to await it; no step from
\* then on broadcasts the request of the call.
C28_AbortRejectsConnect ==
  [][\A s \in Sessions :
       /\ (IsAbortStep(s) /\ WaitsForConnected(s))
            => /\ ConnectRejects(op'[s])
               /\ op[s].pc = "awaitConnect" => op'[s].pc = "rejected"
               /\ ~IsRequestBroadcast(s)
       /\ op[s].cp = "rejected"
            => /\ ConnectRejects(op'[s])
               /\ ~IsRequestBroadcast(s)]_vars

\* A request operation was rejected with SessionClosedError by an abort that came
\* before the popout connected.
C28_Witness ==
  \E s \in Sessions :
    /\ sess[s].aborted /\ ~sess[s].connected
    /\ op[s].kind \in RequestOps /\ op[s].pc = "rejected"
    /\ op[s].result = [error |-> "SessionClosedError"]

\* The step delivers a ConnectResponse carrying the id of session s.
IsConnectResponseFor(s) ==
  /\ IsDeliveryToBg
  /\ Head(toBg).msg.type = "ConnectResponse" /\ Head(toBg).msg.sessionId = s

\* C29: a session is created with connected false, the flag becomes true only in a step
\* that delivers a ConnectResponse with the session's id, and a request of the session
\* is broadcast only when the flag is true or in the very step that delivers that
\* ConnectResponse.
C29_ConnectedByResponse ==
  [][\A s \in Sessions :
       /\ (~sess[s].created /\ sess'[s].created) => ~sess'[s].connected
       /\ (~sess[s].connected /\ sess'[s].connected) => IsConnectResponseFor(s)
       /\ IsRequestBroadcast(s) => (sess[s].connected \/ IsConnectResponseFor(s))]_vars

\* A request of a connected session is on its way to the popouts.
C29_Witness ==
  \E s \in Sessions : \E i \in DOMAIN toUi :
    /\ toUi[i].sessionId = s /\ toUi[i].type \in RequestTypes
    /\ sess[s].connected /\ ~sess[s].closed

IsDispatchOf(m) == ipcEvent'.data /\ ipcEvent'.msgs = <<m>>

\* C31: the dispatch of a {command:"disconnected"} message sets the connection state
\* to Disconnected, leaves the pending table, the sendMessage calls and the connect()
\* calls as they were, and does not call the unsolicited-message handler.
C31_DisconnectedMessage ==
  [][IsDispatchOf(DisconnectedMsg) =>
       /\ connectionState' = "disconnected"
       /\ pendingMessages' = pendingMessages
       /\ sendCalls' = sendCalls
       /\ connectCalls' = connectCalls
       /\ awaitingConnection' = awaitingConnection
       /\ ipcEvent'.handler = <<>>]_vars

\* A {command:"disconnected"} message was just dispatched on a connected client with
\* a request in flight: the request is still pending.
C31_Witness ==
  /\ ipcEvent.data /\ ipcEvent.msgs = <<DisconnectedMsg>>
  /\ everConnected /\ connectionState = "disconnected"
  /\ \E id \in DOMAIN pendingMessages : sendCalls[pendingMessages[id]].state = "waiting"

\* The decoded messages that are no reserved command.
OrdinaryMessages == WorkerMessages \ {ConnectedMsg, DisconnectedMsg}

\* Message m answers a request of the pending table.
IsPendingResponse(m) == "messageId" \in DOMAIN m /\ m.messageId \in DOMAIN pendingMessages

\* C32: the dispatch of a message that is no reserved command either finds its
\* messageId in the pending table, and then resolves the call that waits under that
\* id with the message, removes that entry only and does not call the handler, or
\* does not find it, and then calls the handler once with the message and leaves the
\* pending table and the calls as they were.
C32_ResponseOrHandler ==
  [][\A m \in OrdinaryMessages :
       IsDispatchOf(m) =>
         IF IsPendingResponse(m)
         THEN LET i == pendingMessages[m.messageId] IN
              /\ DOMAIN pendingMessages' = DOMAIN pendingMessages \ {m.messageId}
              /\ \A id \in DOMAIN pendingMessages' : pendingMessages'[id] = pendingMessages[id]
              /\ ipcEvent'.handler = <<>>
              /\ sendCalls[i].state = "waiting"
                   => (sendCalls'[i].state = "resolved" /\ sendCalls'[i].value = m)
              /\ \A j \in DOMAIN sendCalls : j # i => sendCalls'[j] = sendCalls[j]
         ELSE /\ ipcEvent'.handler = <<m>>
              /\ pendingMessages' = pendingMessages
              /\ sendCalls' = sendCalls]_vars

\* A response was just dispatched to the call that waited for it, while another
\* request stays pending.
C32_Witness ==
  \E i \in DOMAIN sendCalls :
    /\ ipcEvent.data /\ ipcEvent.msgs = <<Response(sendCalls[i].messageId)>>
    /\ ipcEvent.handler = <<>>
    /\ sendCalls[i].state = "resolved" /\ sendCalls[i].value = Response(sendCalls[i].messageId)
    /\ sendCalls[i].messageId \notin DOMAIN pendingMessages
    /\ pendingMessages # <<>>

\* C33: a sendMessage call that waits is resolved only by the dispatch of a message
\* carrying its own messageId, with that message as its value; and the step in which
\* one call is resolved or times out leaves every other call as it was, the waiting
\* ones still registered in the pending table.
C33_MatchedById ==
  [][\A i \in DOMAIN sendCalls :
       /\ (sendCalls[i].state = "waiting" /\ sendCalls'[i].state = "resolved")
            => /\ IsDispatchOf(Response(sendCalls[i].messageId))
               /\ sendCalls'[i].value = Response(sendCalls[i].messageId)
       /\ (sendCalls[i].state = "waiting" /\ sendCalls'[i].state \in {"resolved", "timedout"})
            => \A j \in DOMAIN sendCalls \ {i} :
                 /\ sendCalls'[j] = sendCalls[j]
                 /\ sendCalls[j].state = "waiting"
                      => /\ sendCalls[j].messageId \in DOMAIN pendingMessages'
                         /\ pendingMessages'[sendCalls[j].messageId] = j]_vars

\* Two requests were pending under distinct ids and the response of the second came
\* first: the second call is resolved, the first still waits.
C33_Witness ==
  /\ Len(sendCalls) >= 2
  /\ sendCalls[1].messageId # sendCalls[2].messageId
  /\ sendCalls[1].state = "waiting" /\ sendCalls[1].messageId \in DOMAIN pendingMessages
  /\ sendCalls[2].state = "resolved" /\ sendCalls[2].value = Response(sendCalls[2].messageId)

(***************************************************************************)
(* Further properties of the session broker.                               *)
(***************************************************************************)
\* The step opens a popout.
IsSurfaceOpened == Len(surf') = Len(surf) + 1

\* C34: the step that creates a session broadcasts one NewSessionCreatedRequest with
\* the session's id and opens no popout; a popout is opened only inside the connect()
\* of an operation of its session, and only when no operation of that session has
\* opened a popout before.
C34_LazySurface ==
  [][/\ \A s \in Sessions :
          (~sess[s].created /\ sess'[s].created)
            => /\ toUi' = Append(toUi, NewSessionCreatedRequest(s))
               /\ surf' = surf
     /\ IsSurfaceOpened
          => LET s == surf'[Len(surf')].session IN
             /\ sess[s].created
             /\ op[s].pc = "authStatus"
             /\ SurfacesOf(s) = {}]_vars

\* C35: the popout a connect() opens is on the logged-out route when the
\* authentication status is LoggedOut at that moment, on the lock route when it is
\* Locked and on the ceremony route otherwise, and in the three cases it carries the
\* id of the session whose connect() opened it.
C35_RouteByAuthStatus ==
  [][IsSurfaceOpened =>
       LET n == surf'[Len(surf')] IN
       /\ authStatus = "LoggedOut" => n.route = "home"
       /\ authStatus = "Locked" => n.route = "lock"
       /\ authStatus \notin {"LoggedOut", "Locked"} => n.route = "fido2"
       /\ n.session \in Sessions
       /\ op[n.session].pc = "authStatus" /\ op'[n.session].pc = "opening"
       /\ \A t \in Sessions \ {n.session} : op'[t] = op[t]]_vars

\* A popout was opened on the lock route for a locked vault and carries the id of
\* the session that opened it.
C35_Witness ==
  \E u \in DOMAIN surf :
    /\ authStatus = "Locked" /\ surf[u].route = "lock" /\ surf[u].state = "open"
    /\ op[surf[u].session].opening = u

\* The worker processes that were spawned and have neither exited nor failed to start.
AliveProcs == {p \in DOMAIN procs : procs[p].state = "running"}

\* C36: at most one worker process spawned by the client is alive.
C36_OneProcessAlive == Cardinality(AliveProcs) <= 1

\* C37: a request operation invoked on a session that is closed rejects; it does not
\* take up waiting for a response.
C37_ClosedSessionRejects ==
  [][\A s \in Sessions :
       (IsCall(s) /\ sess[s].closed /\ op'[s].kind \in RequestOps)
         => op'[s].pc = "rejected"]_vars

\* connect() was never called: no worker process was ever spawned.
NoWorker == procs = <<>> /\ process = 0

\* C38: a sendMessage made while no worker process exists, with a message id that is
\* not pending, writes to no stream, registers the id in the pending table under the
\* new call and leaves the call waiting; and as long as no worker process exists a
\* waiting call settles only by timing out.
C38_SendWithoutWorker ==
  [][/\ \A id \in MessageIds :
          (IsSendStep(id) /\ NoWorker /\ id \notin DOMAIN pendingMessages)
            => /\ procs' = procs /\ wire' = wire
               /\ id \in DOMAIN pendingMessages'
               /\ pendingMessages'[id] = Len(sendCalls')
               /\ sendCalls'[Len(sendCalls')].state = "waiting"
     /\ \A i \in DOMAIN sendCalls :
          (NoWorker /\ sendCalls[i].state = "waiting" /\ sendCalls'[i].state # "waiting")
            => sendCalls'[i].state = "timedout"]_vars

\* Without any worker process one request has timed out and another one waits.
C38_Witness ==
  /\ NoWorker
  /\ Len(sendCalls) >= 2
  /\ sendCalls[1].state = "timedout" /\ sendCalls[2].state = "waiting"

\* C39: every message a popout has broadcast carries the session id of the popout's
\* route query parameter.
C39_SurfaceMessagesTagged ==
  \A i \in DOMAIN toBg : toBg[i].msg.sessionId = surf[toBg[i].from].session

\* The step in which popout u sends a response to a request to confirm a new
\* credential.
IsConfirmResponse(u) ==
  /\ Len(toBg') = Len(toBg) + 1
  /\ toBg'[Len(toBg')].from = u
  /\ toBg'[Len(toBg')].msg.type \in {"ConfirmNewCredentialResponse",
                                     "ConfirmNewNonDiscoverableCredentialResponse"}

\* C40: the userVerified a popout sends in a ConfirmNewCredentialResponse or a
\* ConfirmNewNonDiscoverableCredentialResponse is true exactly when the request it
\* answers asked for user verification and the password reprompt succeeded; the
\* reprompt is not shown when the request did not ask for it.
C40_UserVerified ==
  [][\A u \in DOMAIN surf :
       IsConfirmResponse(u) =>
         /\ toBg'[Len(toBg')].msg.userVerified
              <=> (surf[u].data.userVerification /\ surf'[u].prompt = "ok")
         /\ ~surf[u].data.userVerification => surf'[u].prompt = "none"]_vars

\* A ConfirmNewCredentialResponse with userVerified true is on its way to the
\* background after a reprompt that succeeded.
C40_Witness ==
  \E i \in DOMAIN toBg :
    /\ toBg[i].msg.type = "ConfirmNewCredentialResponse"
    /\ toBg[i].msg.userVerified
    /\ surf[toBg[i].from].prompt = "ok"
====
